---- MODULE Spec2Model ----
(***************************************************************************)
(* A model of aljwaed-Backend/server.js: the upload, listing and download  *)
(* routes over the upload directory and the flat metadata.json store,      *)
(* together with the asynchronous start-up block.                          *)
(*                                                                         *)
(* One action is one turn of the event loop: the completion of a pending   *)
(* I/O call together with the synchronous code that runs up to the next    *)
(* await.  Requests interleave only between such turns.                    *)
(*                                                                         *)
(* Strings that the code inspects character by character (file names) are  *)
(* sequences of character codes; a uuid is one code above the ASCII range  *)
(* (a uuid holds neither '.' nor '/').                                     *)
(***************************************************************************)
EXTENDS Integers, Sequences, FiniteSets, TLC

\* ------------------------------------------------------------------ bounds
\* Number of upload and download requests in one behaviour.
MaxReq == 2
\* Number of milliseconds the clock can advance past StartTime.
MaxTick == 1

\* --------------------------------------------------------------- constants
\* multer limits.fileSize: 1024 * 1024 * 200
FILE_SIZE_LIMIT == 209715200
\* The clock value of the first request: one millisecond before a full second.
StartTime == 1999

Reqs == 1..MaxReq

\* JavaScript's undefined (a missing header, field or environment variable).
UNDEFINED == "<undefined>"

\* ------------------------------------------------------------------ inputs
\* Values of process.env.UPLOAD_TOKEN.
SecretValues == {UNDEFINED, "", "s3cret"}
\* Values of the x-upload-token header.
HeaderValues == {UNDEFINED, "", "s3cret", "wrong"}

\* The text fields of the multipart form: one with a name and a version and
\* no description, one without a name.
NamedBody ==
    [softwareName |-> "App", softwareVersion |-> "1.0", softwareDescription |-> UNDEFINED]
NoNameBody ==
    [softwareName |-> UNDEFINED, softwareVersion |-> "", softwareDescription |-> "d"]

\* The multipart body without a softwareFile part.
NoPart == [present |-> FALSE]
Part(originalname, size) ==
    [present |-> TRUE, originalname |-> originalname, size |-> size]

\* The multipart bodies sent: [part, body].  Original file names are
\*   "A.EXE", "a.exe", "p.zip", ".exe" (a dot file: no extension), "a.exe."
Forms ==
    { [part |-> Part(<<65, 46, 69, 88, 69>>, 2), body |-> NamedBody],
      [part |-> Part(<<97, 46, 101, 120, 101>>, 1), body |-> NoNameBody],
      [part |-> Part(<<112, 46, 122, 105, 112>>, 1), body |-> NamedBody],
      [part |-> Part(<<46, 101, 120, 101>>, 1), body |-> NamedBody],
      [part |-> Part(<<97, 46, 101, 120, 101, 46>>, 1), body |-> NamedBody],
      [part |-> Part(<<97, 46, 101, 120, 101>>, FILE_SIZE_LIMIT + 1), body |-> NamedBody],
      [part |-> NoPart, body |-> NamedBody] }

\* --------------------------------------------------------- pure functions
\* String.prototype.toLowerCase on character codes.
toLowerCase(s) ==
    [i \in 1..Len(s) |-> IF s[i] >= 65 /\ s[i] <= 90 THEN s[i] + 32 ELSE s[i]]

\* String.prototype.includes.
includes(s, sub) ==
    \E i \in 0..(Len(s) - Len(sub)) :
        \A j \in 1..Len(sub) : s[i + j] = sub[j]

\* JavaScript truthiness of a string-or-undefined value.
Truthy(v) == v # UNDEFINED /\ v # ""

\* a || b
OrElse(a, b) == IF Truthy(a) THEN a ELSE b

\* The scanning loop of path.extname (posix), from index i down to 1.
\* st = [startDot, startPart, end, matchedSlash, preDotState, stop], with
\* 0-based positions as in Node and -1 for "not seen".
RECURSIVE extnameScan(_, _, _)
extnameScan(p, i, st) ==
    IF i < 1 \/ st.stop THEN st
    ELSE LET code == p[i]
             pos == i - 1
         IN IF code = 47
            THEN IF ~st.matchedSlash
                 THEN [st EXCEPT !.startPart = pos + 1, !.stop = TRUE]
                 ELSE extnameScan(p, i - 1, st)
            ELSE LET s1 == IF st.end = -1
                           THEN [st EXCEPT !.matchedSlash = FALSE, !.end = pos + 1]
                           ELSE st
                     s2 == IF code = 46
                           THEN IF s1.startDot = -1
                                THEN [s1 EXCEPT !.startDot = pos]
                                ELSE IF s1.preDotState # 1
                                     THEN [s1 EXCEPT !.preDotState = 1]
                                     ELSE s1
                           ELSE IF s1.startDot # -1
                                THEN [s1 EXCEPT !.preDotState = -1]
                                ELSE s1
                 IN extnameScan(p, i - 1, s2)

\* path.extname(p): from the last '.' of the last path segment to its end;
\* empty for no dot, for a leading dot and for "..".
extname(p) ==
    LET st == extnameScan(p, Len(p),
                  [startDot |-> -1, startPart |-> 0, end |-> -1,
                   matchedSlash |-> TRUE, preDotState |-> 0, stop |-> FALSE])
    IN IF \/ st.startDot = -1
          \/ st.end = -1
          \/ st.preDotState = 0
          \/ (st.preDotState = 1 /\ st.startDot = st.end - 1
                                 /\ st.startDot = st.startPart + 1)
       THEN << >>
       ELSE SubSeq(p, st.startDot + 1, st.end)

\* '.exe'
DotExe == <<46, 101, 120, 101>>


\* Faulty variant: every file part is accepted.
fileFilter_AcceptsAll(originalname) == TRUE

\* Faulty variant: the name is searched for '.exe' instead of its extension compared.
fileFilter_Includes(originalname) ==
    includes(toLowerCase(originalname), DotExe)

\* multer fileFilter: TRUE when the part is accepted.
fileFilter(originalname) ==
    ~(toLowerCase(extname(originalname)) # DotExe)

\* Faulty variant: every request gets the same tokens.
uuidv4_Repeats(r, k) == 1000 + k

\* uuidv4(): the k-th token (k = 1: the file name, k = 2: the record id)
\* generated for request r; tokens of different calls differ.
uuidv4(r, k) == 1000 + 2 * r + k

\* multer storage.filename: uniqueSuffix + path.extname(file.originalname).
filename(uniqueSuffix, originalname) ==
    <<uniqueSuffix>> \o extname(originalname)

\* Date.prototype.toISOString: <<seconds, milliseconds>> of a clock value.
toISOString(t) == <<t \div 1000, t % 1000>>

\* new Date(iso): back to a number of milliseconds.
newDate(iso) == iso[1] * 1000 + iso[2]

\* Faulty variant: the operands of the subtraction are swapped (oldest first).
compare_Ascending(a, b) == newDate(a.uploadedAt) - newDate(b.uploadedAt)

\* The comparator of the listing: new Date(b.uploadedAt) - new Date(a.uploadedAt).
compare(a, b) == newDate(b.uploadedAt) - newDate(a.uploadedAt)

\* Faulty variant: an element that compares equal to one already placed is dropped.
RECURSIVE insertSorted_DropsEqual(_, _)
insertSorted_DropsEqual(sorted, x) ==
    IF sorted = << >> THEN <<x>>
    ELSE IF compare(Head(sorted), x) = 0 THEN sorted
    ELSE IF compare(Head(sorted), x) < 0
         THEN <<Head(sorted)>> \o insertSorted_DropsEqual(Tail(sorted), x)
         ELSE <<x>> \o sorted

\* Array.prototype.sort with that comparator (a stable sort): insert x after
\* every element it does not have to precede.
RECURSIVE insertSorted(_, _)
insertSorted(sorted, x) ==
    IF sorted = << >> THEN <<x>>
    ELSE IF compare(Head(sorted), x) <= 0
         THEN <<Head(sorted)>> \o insertSorted(Tail(sorted), x)
         ELSE <<x>> \o sorted

RECURSIVE sort(_)
sort(arr) ==
    IF arr = << >> THEN << >>
    ELSE insertSorted(sort(SubSeq(arr, 1, Len(arr) - 1)), arr[Len(arr)])

\* Faulty variant: the token is compared only when the header is present.
tokenCheck_SkipsMissingHeader(secret, providedToken) ==
    IF ~Truthy(secret) THEN "config"
    ELSE IF providedToken # UNDEFINED /\ providedToken # secret THEN "unauthorized"
    ELSE "ok"

\* Faulty variant: the token comparison comes before the configuration check.
tokenCheck_ComparesFirst(secret, providedToken) ==
    IF providedToken # secret THEN "unauthorized"
    ELSE IF ~Truthy(secret) THEN "config"
    ELSE "ok"

\* The two token checks at the top of the upload route, in order.
tokenCheck(secret, providedToken) ==
    IF ~Truthy(secret) THEN "config"
    ELSE IF providedToken # secret THEN "unauthorized"
    ELSE "ok"

\* Faulty variant: only the parent-directory token is looked for.
invalidFilename_DotDotOnly(serverFilename) ==
    includes(serverFilename, <<46, 46>>)

\* The filename check of the download route.
invalidFilename(serverFilename) ==
    includes(serverFilename, <<46, 46>>) \/ includes(serverFilename, <<47>>)

\* ------------------------------------------------------------------- state
VARIABLES
    MY_SECRET_UPLOAD_TOKEN, \* process.env.UPLOAD_TOKEN, read once at start
    uploads,                \* UPLOADS_DIR: a set of [name, size]
    metadataFile,           \* METADATA_FILE: [state, recs]
    initPc,                 \* position of the start-up block
    now,                    \* the clock, in milliseconds
    kind,                   \* per request: "none", "upload", "download"
    pc,                     \* per request: the pending I/O call
    loc,                    \* per request: the handler's local variables
    resp,                   \* per request: the response sent (status 0: none yet)
    hist,                   \* per request: whether multer ran, whether the fs was touched
    listResp,               \* the response of the latest GET /api/software
    overlap                 \* history: two read-then-write cycles on the store overlapped

vars == <<MY_SECRET_UPLOAD_TOKEN, uploads, metadataFile, initPc, now,
          kind, pc, loc, resp, hist, listResp, overlap>>

NoResponse == [status |-> 0]
NoLocals == [none |-> TRUE]
NoHistory == [multer |-> FALSE, fs |-> FALSE]

\* Contents of the metadata file.
Absent == [state |-> "absent", recs |-> << >>]
Stored(recs) == [state |-> "ok", recs |-> recs]
Corrupt == [state |-> "corrupt", recs |-> << >>]

Elems(seq) == {seq[i] : i \in 1..Len(seq)}

FileNamed(name) == {f \in uploads : f.name = name}

\* Faulty variant: a missing file throws like every other failure.
readMetadata_ThrowsOnAbsent(file, io) ==
    IF file.state = "ok" /\ io THEN [ok |-> TRUE, data |-> file.recs]
    ELSE [ok |-> FALSE, data |-> << >>]

\* Faulty variant: every failure reads as the empty array.
readMetadata_NeverThrows(file, io) ==
    IF file.state = "ok" /\ io THEN [ok |-> TRUE, data |-> file.recs]
    ELSE [ok |-> TRUE, data |-> << >>]

\* readMetadata(): [ok, data].  A missing file reads as the empty array; an
\* unparsable file, or a failing read (io = FALSE), throws.
readMetadata(file, io) ==
    IF file.state = "absent" THEN [ok |-> TRUE, data |-> << >>]
    ELSE IF ~io \/ file.state = "corrupt" THEN [ok |-> FALSE, data |-> << >>]
    ELSE [ok |-> TRUE, data |-> file.recs]

\* Faulty variant: the last element of the array is stored twice.
writeMetadata_StoresLastTwice(file, data, outcome) ==
    IF outcome = "ok"
    THEN IF data = << >> THEN Stored(<< >>)
         ELSE Stored(data \o <<data[Len(data)]>>)
    ELSE IF outcome = "torn" THEN Corrupt
    ELSE file

\* Faulty variant: a write adds the last element of the array to what the
\* file holds instead of replacing the file.
writeMetadata_Merges(file, data, outcome) ==
    IF outcome = "ok"
    THEN IF data = << >> THEN Stored(<< >>)
         ELSE Stored(file.recs \o <<data[Len(data)]>>)
    ELSE IF outcome = "torn" THEN Corrupt
    ELSE file

\* Faulty variant: a write that reports a failure has stored the whole array.
writeMetadata_FailsAfterStoring(file, data, outcome) ==
    IF outcome = "fail" THEN file ELSE Stored(data)

\* writeMetadata(data): the file afterwards, for each outcome of fs.writeFile:
\* "ok", "fail" (nothing written), "torn" (truncated or partly written).
writeMetadata(file, data, outcome) ==
    IF outcome = "ok" THEN Stored(data)
    ELSE IF outcome = "torn" THEN Corrupt
    ELSE file

WriteOutcomes == {"ok", "fail", "torn"}

\* History: some upload has read the store and not yet written it back.
UploadCycleOpen(except) ==
    \E q \in Reqs \ except : pc[q] = "writeMetadata"

Init ==
    /\ MY_SECRET_UPLOAD_TOKEN \in SecretValues
    /\ uploads = {}
    /\ metadataFile \in {Absent, Stored(<< >>)}
    /\ initPc = "mkdir"
    /\ now = StartTime
    /\ kind = [r \in Reqs |-> "none"]
    /\ pc = [r \in Reqs |-> "new"]
    /\ loc = [r \in Reqs |-> NoLocals]
    /\ resp = [r \in Reqs |-> NoResponse]
    /\ hist = [r \in Reqs |-> NoHistory]
    /\ listResp = NoResponse
    /\ overlap = FALSE

\* ---------------------------------------------------------------- start-up
\* fs.mkdir(UPLOADS_DIR, {recursive: true}).
InitMkdir(ok) ==
    /\ initPc = "mkdir"
    /\ initPc' = IF ok THEN "access" ELSE "done"
    /\ UNCHANGED <<MY_SECRET_UPLOAD_TOKEN, uploads, metadataFile, now,
                   kind, pc, loc, resp, hist, listResp, overlap>>

\* fs.access(METADATA_FILE).
InitAccess ==
    /\ initPc = "access"
    /\ initPc' = IF metadataFile.state = "absent" THEN "write" ELSE "done"
    /\ overlap' = (overlap \/ (initPc' = "write" /\ UploadCycleOpen({})))
    /\ UNCHANGED <<MY_SECRET_UPLOAD_TOKEN, uploads, metadataFile, now,
                   kind, pc, loc, resp, hist, listResp>>

\* fs.writeFile(METADATA_FILE, JSON.stringify([])).
InitWrite(outcome) ==
    /\ initPc = "write"
    /\ initPc' = "done"
    /\ metadataFile' = writeMetadata(metadataFile, << >>, outcome)
    /\ UNCHANGED <<MY_SECRET_UPLOAD_TOKEN, uploads, now,
                   kind, pc, loc, resp, hist, listResp, overlap>>

\* A request slot is taken in order of arrival.
Fresh(r) == pc[r] = "new" /\ (IF r = 1 THEN TRUE ELSE pc[r - 1] # "new")

Respond(r, response) ==
    /\ resp' = [resp EXCEPT ![r] = response]
    /\ pc' = [pc EXCEPT ![r] = "done"]
    /\ loc' = [loc EXCEPT ![r] = NoLocals]

\* ------------------------------------------------------------------ upload
\* POST /api/software/upload: the synchronous token checks; upload.single is
\* called only when both pass.
UploadStart(r, providedToken) ==
    /\ Fresh(r)
    /\ kind' = [kind EXCEPT ![r] = "upload"]
    /\ LET check == tokenCheck(MY_SECRET_UPLOAD_TOKEN, providedToken)
       IN IF check = "config"
          THEN /\ Respond(r, [status |-> 500,
                     message |-> "Server configuration error regarding upload token."])
               /\ hist' = hist
          ELSE IF check = "unauthorized"
          THEN /\ Respond(r, [status |-> 401,
                     message |-> "Unauthorized: Invalid or missing upload token."])
               /\ hist' = hist
          ELSE /\ pc' = [pc EXCEPT ![r] = "multer"]
               /\ hist' = [hist EXCEPT ![r].multer = TRUE]
               /\ UNCHANGED <<loc, resp>>
    /\ UNCHANGED <<MY_SECRET_UPLOAD_TOKEN, uploads, metadataFile, initPc,
                   now, listResp, overlap>>

\* The callback of upload.single once multer has stored the file: the
\* synchronous part up to the first await.
AfterStored(r, file, body) ==
    /\ loc' = [loc EXCEPT ![r] = [file |-> file, body |-> body]]
    /\ pc' = [pc EXCEPT ![r] =
                 IF ~Truthy(body.softwareName) THEN "unlinkOrphan" ELSE "readMetadata"]
    /\ resp' = resp

\* upload.single('softwareFile'): multer parses the multipart body, filters
\* the file part, stores it under a generated name and calls back.
\* diskOk = FALSE: writing the file fails.
Multer(r, part, body, diskOk) ==
    /\ pc[r] = "multer"
    /\ hist' = [hist EXCEPT ![r].fs = part.present /\ fileFilter(part.originalname)]
    /\ IF ~part.present
       THEN /\ Respond(r, [status |-> 400, message |-> "No file uploaded."])
            /\ uploads' = uploads
       ELSE IF ~fileFilter(part.originalname)
       THEN /\ Respond(r, [status |-> 400, message |-> "Only .exe files are allowed!"])
            /\ uploads' = uploads
       ELSE LET name == filename(uuidv4(r, 1), part.originalname)
            IN /\ IF part.size > FILE_SIZE_LIMIT
                  THEN /\ Respond(r, [status |-> 400,
                                      message |-> "File upload error: File too large"])
                       /\ uploads' = uploads
                  ELSE IF ~diskOk
                  THEN /\ Respond(r, [status |-> 400, message |-> "Unknown upload error"])
                       /\ uploads' = uploads
                  ELSE /\ uploads' = uploads \cup {[name |-> name, size |-> part.size]}
                       /\ AfterStored(r, [originalname |-> part.originalname,
                                          filename |-> name, path |-> name,
                                          size |-> part.size], body)
    /\ UNCHANGED <<MY_SECRET_UPLOAD_TOKEN, metadataFile, initPc, now, kind, listResp, overlap>>

\* Faulty variant: the directory entry of another file goes with it.
unlink_RemovesAll(dir, path, ok) == IF ok THEN {} ELSE dir

\* Faulty variant: the file is never removed.
unlink_KeepsFile(dir, path, ok) == dir

\* fs.unlink(path): the directory afterwards (ok = FALSE: the call fails).
unlink(dir, path, ok) ==
    IF ok THEN {f \in dir : f.name # path} ELSE dir

\* softwareName is missing: await fs.unlink(req.file.path), then 400.
UploadUnlinkOrphan(r, ok) ==
    /\ pc[r] = "unlinkOrphan"
    /\ uploads' = unlink(uploads, loc[r].file.path, ok)
    /\ Respond(r, [status |-> 400, message |-> "Software name is required."])
    /\ UNCHANGED <<MY_SECRET_UPLOAD_TOKEN, metadataFile, initPc, now,
                   kind, hist, listResp, overlap>>

\* The record built by the upload callback.
newSoftware(id, body, file, t) ==
    [id |-> id,
     name |-> body.softwareName,
     version |-> OrElse(body.softwareVersion, ""),
     description |-> OrElse(body.softwareDescription, ""),
     originalFilename |-> file.originalname,
     serverFilename |-> file.filename,
     uploadedAt |-> toISOString(t),
     size |-> file.size]

\* await readMetadata() returns or throws; on return the record is built,
\* pushed and writeMetadata is called.  dt: the time that passed.
UploadReadMetadata(r, io, dt) ==
    /\ pc[r] = "readMetadata"
    /\ kind[r] = "upload"
    /\ now + dt <= StartTime + MaxTick
    /\ now' = now + dt
    /\ LET read == readMetadata(metadataFile, io)
       IN IF read.ok
          THEN LET rec == newSoftware(uuidv4(r, 2), loc[r].body, loc[r].file, now')
               IN /\ overlap' = (overlap \/ UploadCycleOpen({r}) \/ initPc = "write")
                  /\ loc' = [loc EXCEPT ![r] =
                               [file |-> loc[r].file, newSoftware |-> rec,
                                metadata |-> Append(read.data, rec)]]
                  /\ pc' = [pc EXCEPT ![r] = "writeMetadata"]
          ELSE /\ overlap' = overlap
               /\ loc' = [loc EXCEPT ![r] = [file |-> loc[r].file]]
               /\ pc' = [pc EXCEPT ![r] = "unlinkFailed"]
    /\ UNCHANGED <<MY_SECRET_UPLOAD_TOKEN, uploads, metadataFile, initPc, kind, resp,
                   hist, listResp>>

\* fs.writeFile(METADATA_FILE, ...) of the pushed array completes or fails.
UploadWriteMetadata(r, outcome) ==
    /\ pc[r] = "writeMetadata"
    /\ metadataFile' = writeMetadata(metadataFile, loc[r].metadata, outcome)
    /\ IF outcome = "ok"
       THEN /\ pc' = [pc EXCEPT ![r] = "respond"]
            /\ loc' = [loc EXCEPT ![r] = [file |-> loc[r].file,
                                          newSoftware |-> loc[r].newSoftware]]
       ELSE /\ pc' = [pc EXCEPT ![r] = "unlinkFailed"]
            /\ loc' = [loc EXCEPT ![r] = [file |-> loc[r].file]]
    /\ UNCHANGED <<MY_SECRET_UPLOAD_TOKEN, uploads, initPc, now, kind, resp,
                   hist, listResp, overlap>>

\* await writeMetadata(metadata) has returned: res.status(201).
UploadRespond(r) ==
    /\ pc[r] = "respond"
    /\ Respond(r, [status |-> 201, message |-> "Software uploaded successfully!",
                   software |-> loc[r].newSoftware])
    /\ UNCHANGED <<MY_SECRET_UPLOAD_TOKEN, uploads, metadataFile, initPc,
                   now, kind, hist, listResp, overlap>>

\* Faulty variant: a failing delete is not caught, the handler ends without
\* sending a response.
UploadUnlinkFailed_DeleteThrows(r, ok) ==
    /\ pc[r] = "unlinkFailed"
    /\ uploads' = unlink(uploads, loc[r].file.path, ok)
    /\ IF ok
       THEN Respond(r, [status |-> 500, message |-> "Error saving software metadata."])
       ELSE /\ pc' = [pc EXCEPT ![r] = "done"]
            /\ loc' = [loc EXCEPT ![r] = NoLocals]
            /\ resp' = resp
    /\ UNCHANGED <<MY_SECRET_UPLOAD_TOKEN, metadataFile, initPc, now,
                   kind, hist, listResp, overlap>>

\* The catch block: await fs.unlink(req.file.path), then 500.
UploadUnlinkFailed(r, ok) ==
    /\ pc[r] = "unlinkFailed"
    /\ uploads' = unlink(uploads, loc[r].file.path, ok)
    /\ Respond(r, [status |-> 500, message |-> "Error saving software metadata."])
    /\ UNCHANGED <<MY_SECRET_UPLOAD_TOKEN, metadataFile, initPc, now,
                   kind, hist, listResp, overlap>>

\* -------------------------------------------------------------------- list
\* GET /api/software: the response to await readMetadata(), sort, res.json.
listSoftware(file, io) ==
    LET read == readMetadata(file, io)
    IN IF read.ok
       THEN [status |-> 200, body |-> sort(read.data)]
       ELSE [status |-> 500, message |-> "Error fetching software list."]

\* A GET /api/software request is answered.
List(io) ==
    /\ listResp' = listSoftware(metadataFile, io)
    /\ UNCHANGED <<MY_SECRET_UPLOAD_TOKEN, uploads, metadataFile, initPc, now,
                   kind, pc, loc, resp, hist, overlap>>

\* ---------------------------------------------------------------- download
\* Requested names: "../../etc/passwd", "a/b", "..", "n.exe" (never stored),
\* and the name of any stored file.
DownloadNames ==
    { <<46, 46, 47, 46, 46, 47, 101, 116, 99, 47, 112, 97, 115, 115, 119, 100>>,
      <<97, 47, 98>>,
      <<46, 46>>,
      <<110, 46, 101, 120, 101>> }
    \cup {f.name : f \in uploads}

\* GET /api/software/download/:serverFilename: the filename check; on a
\* valid name fs.access(filePath) is called.
DownloadStart(r, serverFilename) ==
    /\ Fresh(r)
    /\ kind' = [kind EXCEPT ![r] = "download"]
    /\ IF invalidFilename(serverFilename)
       THEN Respond(r, [status |-> 400, message |-> "Invalid filename."])
       ELSE /\ pc' = [pc EXCEPT ![r] = "access"]
            /\ loc' = [loc EXCEPT ![r] = [serverFilename |-> serverFilename]]
            /\ resp' = resp
    /\ UNCHANGED <<MY_SECRET_UPLOAD_TOKEN, uploads, metadataFile, initPc,
                   now, hist, listResp, overlap>>

\* await fs.access(filePath) returns or throws; on return readMetadata is called.
DownloadAccess(r) ==
    /\ pc[r] = "access"
    /\ hist' = [hist EXCEPT ![r].fs = TRUE]
    /\ IF FileNamed(loc[r].serverFilename) # {}
       THEN /\ pc' = [pc EXCEPT ![r] = "readMetadata"]
            /\ UNCHANGED <<loc, resp>>
       ELSE Respond(r, [status |-> 404, message |-> "File not found."])
    /\ UNCHANGED <<MY_SECRET_UPLOAD_TOKEN, uploads, metadataFile, initPc,
                   now, kind, listResp, overlap>>

\* metadata.find(s => s.serverFilename === serverFilename), then the display name.
originalFilename(metadata, serverFilename) ==
    LET hits == {i \in 1..Len(metadata) : metadata[i].serverFilename = serverFilename}
    IN IF hits = {} THEN serverFilename
       ELSE metadata[CHOOSE i \in hits : \A j \in hits : i <= j].originalFilename

\* await readMetadata() returns or throws; on return res.download is called.
DownloadReadMetadata(r, io) ==
    /\ pc[r] = "readMetadata"
    /\ kind[r] = "download"
    /\ LET read == readMetadata(metadataFile, io)
       IN IF read.ok
          THEN /\ pc' = [pc EXCEPT ![r] = "send"]
               /\ loc' = [loc EXCEPT ![r] =
                            [serverFilename |-> loc[r].serverFilename,
                             originalFilename |->
                                 originalFilename(read.data, loc[r].serverFilename)]]
               /\ resp' = resp
          ELSE Respond(r, [status |-> 404, message |-> "File not found."])
    /\ UNCHANGED <<MY_SECRET_UPLOAD_TOKEN, uploads, metadataFile, initPc,
                   now, kind, hist, listResp, overlap>>

\* res.download(filePath, originalFilename, cb): the file is sent, or cb
\* answers 404 when it cannot be read.
DownloadSend(r) ==
    /\ pc[r] = "send"
    /\ IF FileNamed(loc[r].serverFilename) # {}
       THEN Respond(r, [status |-> 200, filename |-> loc[r].originalFilename])
       ELSE Respond(r, [status |-> 404,
                        message |-> "File not found or error during download."])
    /\ UNCHANGED <<MY_SECRET_UPLOAD_TOKEN, uploads, metadataFile, initPc,
                   now, kind, hist, listResp, overlap>>

\* ------------------------------------------------------------ specification
Next ==
    \/ \E ok \in BOOLEAN : InitMkdir(ok)
    \/ InitAccess
    \/ \E outcome \in WriteOutcomes : InitWrite(outcome)
    \/ \E r \in Reqs, t \in HeaderValues : UploadStart(r, t)
    \/ \E r \in Reqs, form \in Forms, diskOk \in BOOLEAN :
          Multer(r, form.part, form.body, diskOk)
    \/ \E r \in Reqs, ok \in BOOLEAN : UploadUnlinkOrphan(r, ok)
    \/ \E r \in Reqs, io \in BOOLEAN, dt \in {0, 1} : UploadReadMetadata(r, io, dt)
    \/ \E r \in Reqs, outcome \in WriteOutcomes : UploadWriteMetadata(r, outcome)
    \/ \E r \in Reqs : UploadRespond(r)
    \/ \E r \in Reqs, ok \in BOOLEAN : UploadUnlinkFailed(r, ok)
    \/ \E io \in BOOLEAN : List(io)
    \/ \E r \in Reqs, n \in DownloadNames : DownloadStart(r, n)
    \/ \E r \in Reqs : DownloadAccess(r)
    \/ \E r \in Reqs, io \in BOOLEAN : DownloadReadMetadata(r, io)
    \/ \E r \in Reqs : DownloadSend(r)

Spec == Init /\ [][Next]_vars

\* The event loop runs the continuation of every pending call of a request:
\* the parsed body, the completed or failed read, write or delete.
HandlerStep(r) ==
    \/ \E form \in Forms, diskOk \in BOOLEAN : Multer(r, form.part, form.body, diskOk)
    \/ \E ok \in BOOLEAN : UploadUnlinkOrphan(r, ok)
    \/ \E io \in BOOLEAN, dt \in {0, 1} : UploadReadMetadata(r, io, dt)
    \/ \E outcome \in WriteOutcomes : UploadWriteMetadata(r, outcome)
    \/ UploadRespond(r)
    \/ \E ok \in BOOLEAN : UploadUnlinkFailed(r, ok)
    \/ DownloadAccess(r)
    \/ \E io \in BOOLEAN : DownloadReadMetadata(r, io)
    \/ DownloadSend(r)

\* The same behaviours, with every pending call of a request completing.
FairSpec == Spec /\ \A r \in Reqs : WF_vars(HandlerStep(r))

\* ================================================================== claims
\* The files in the upload directory that request r's upload stored.
OwnFiles(r, dir) == {f \in dir : f.name[1] = uuidv4(r, 1)}

\* The records of the store that request r's upload created.
OwnRecords(r, file) == {rec \in Elems(file.recs) : rec.id = uuidv4(r, 2)}

\* The request carries no valid token: the header is missing or differs from
\* the server secret.
NoValidToken(t) == t = UNDEFINED \/ t # MY_SECRET_UPLOAD_TOKEN

\* The step of request r is rejected at once, changing neither the upload
\* directory nor the store, before multer runs.
RejectedAtOnce(r, status) ==
    /\ pc'[r] = "done"
    /\ resp'[r].status = status
    /\ ~hist'[r].multer /\ ~hist'[r].fs
    /\ uploads' = uploads
    /\ metadataFile' = metadataFile

\* C1 as stated: an upload without a valid token always yields an
\* authorization failure (401) and creates no file and no record, whether the
\* secret is configured or not.
C1_Original ==
    [][\A r \in Reqs, t \in HeaderValues :
          (UploadStart(r, t) /\ NoValidToken(t)) => RejectedAtOnce(r, 401)]_vars

\* C1 amended: an upload without a valid token is always rejected and
\* creates no file and no record: with an authorization failure (401) when a
\* secret is configured, with a configuration error (500) when none is.
C1_RejectedWithoutValidToken ==
    [][\A r \in Reqs, t \in HeaderValues :
          (UploadStart(r, t) /\ NoValidToken(t)) =>
              IF Truthy(MY_SECRET_UPLOAD_TOKEN)
              THEN RejectedAtOnce(r, 401)
              ELSE RejectedAtOnce(r, 500)]_vars

\* C1 witness: without a configured secret a request was turned away with
\* the configuration error.
C1_Witness ==
    \E r \in Reqs :
        /\ kind[r] = "upload"
        /\ ~Truthy(MY_SECRET_UPLOAD_TOKEN)
        /\ resp[r].status = 500
        /\ uploads = {} /\ metadataFile.recs = << >>

\* C2: the upload handler checks in a fixed order: without a configured
\* secret the request fails with the configuration error (500) whatever the
\* token; otherwise a token different from the secret fails with 401; both
\* answers come before multer parses the body or writes a file.
C2_CheckOrder ==
    [][\A r \in Reqs, t \in HeaderValues :
          UploadStart(r, t) =>
              /\ ~Truthy(MY_SECRET_UPLOAD_TOKEN) =>
                    /\ RejectedAtOnce(r, 500)
                    /\ resp'[r].message =
                           "Server configuration error regarding upload token."
              /\ (Truthy(MY_SECRET_UPLOAD_TOKEN) /\ t # MY_SECRET_UPLOAD_TOKEN) =>
                    /\ RejectedAtOnce(r, 401)
                    /\ resp'[r].message =
                           "Unauthorized: Invalid or missing upload token."]_vars

\* C2 witness: a configured secret, a request answered 401 and multer never ran.
C2_Witness ==
    \E r \in Reqs :
        /\ kind[r] = "upload"
        /\ Truthy(MY_SECRET_UPLOAD_TOKEN)
        /\ resp[r].status = 401
        /\ ~hist[r].multer

\* The name does not end in '.exe', whatever the case of its letters.
NotDotExe(name) ==
    \/ Len(name) < Len(DotExe)
    \/ toLowerCase(SubSeq(name, Len(name) - Len(DotExe) + 1, Len(name))) # DotExe

\* The forms whose file part has another extension.
BadExtensionForms ==
    {form \in Forms : form.part.present /\ NotDotExe(form.part.originalname)}

\* C3: an authorized upload whose file extension is not '.exe' (compared
\* case-insensitively) fails with 400 and changes neither the upload
\* directory nor the metadata store.
C3_BadExtensionLeavesNoTrace ==
    [][\A r \in Reqs :
          pc[r] = "multer" =>
            \A form \in BadExtensionForms, diskOk \in BOOLEAN :
              Multer(r, form.part, form.body, diskOk) =>
              /\ pc'[r] = "done"
              /\ resp'[r].status = 400
              /\ uploads' = uploads
              /\ metadataFile' = metadataFile]_vars

\* C3 witness: an authorized upload was refused by the file filter.
C3_Witness ==
    \E r \in Reqs :
        /\ hist[r].multer
        /\ resp[r].status = 400
        /\ resp[r].message = "Only .exe files are allowed!"

\* An upload answered 400 for its missing softwareName.
NameRequired(r) ==
    /\ kind[r] = "upload"
    /\ resp[r].status = 400
    /\ resp[r].message = "Software name is required."

\* C4 as stated: once an authorized upload of a valid .exe without
\* softwareName has been answered (400), its file is no longer in the upload
\* directory and no record was created for it.
C4_Original ==
    \A r \in Reqs :
        NameRequired(r) =>
            OwnFiles(r, uploads) = {} /\ OwnRecords(r, metadataFile) = {}

\* The forms with a storable .exe file and no softwareName.
NamelessExeForms ==
    {form \in Forms :
        /\ form.part.present
        /\ ~Truthy(form.body.softwareName)
        /\ form.part.size <= FILE_SIZE_LIMIT
        /\ ~NotDotExe(form.part.originalname)
        /\ extname(form.part.originalname) # << >>}

\* C4 amended: an authorized upload of a valid .exe without softwareName is
\* answered 400 after the handler has tried to delete the just-written file:
\* the file is gone when the delete succeeds and stays when the delete itself
\* fails; no record is created for it in either case.
C4_MissingNameCleansUp ==
    [][\A r \in Reqs :
          /\ \A form \in Forms :
                ( /\ pc[r] = "multer"
                  /\ form \in NamelessExeForms
                  /\ Multer(r, form.part, form.body, TRUE) ) =>
                    /\ pc'[r] = "unlinkOrphan"
                    /\ OwnFiles(r, uploads') # {}
                    /\ metadataFile' = metadataFile
          /\ \A ok \in BOOLEAN :
                UploadUnlinkOrphan(r, ok) =>
                    /\ NameRequired(r)'
                    /\ ok => OwnFiles(r, uploads') = {}
                    /\ ~ok => OwnFiles(r, uploads') = OwnFiles(r, uploads)
                    /\ metadataFile' = metadataFile
                    /\ OwnRecords(r, metadataFile') = {}]_vars

\* C4 witness: the upload was answered 400 for its missing name and its file
\* is gone.
C4_Witness ==
    \E r \in Reqs : NameRequired(r) /\ OwnFiles(r, uploads) = {}

\* Uploads whose metadata write has completed, and those answered 201.
Written(r) == kind[r] = "upload" /\ (pc[r] = "respond" \/ resp[r].status = 201)
Succeeded(r) == kind[r] = "upload" /\ resp[r].status = 201

\* No request is being handled.
Quiet == \A r \in Reqs : pc[r] \in {"new", "done"}

\* The start-up block has not reached its write of the store.
StartupHasNotWritten == initPc \in {"mkdir", "access"}

\* ISO timestamp a is earlier than b.
Earlier(a, b) == a[1] < b[1] \/ (a[1] = b[1] /\ a[2] < b[2])

\* uploadedAt is non-increasing along the list.
NewestFirst(body) ==
    \A i, j \in 1..Len(body) : i < j => ~Earlier(body[i].uploadedAt, body[j].uploadedAt)

\* C5 as stated: after N uploads have each completed successfully, in any
\* interleaving, a list() returns exactly N records, newest first.  (Stated
\* for the states in which no request is in flight and the start-up block
\* has not written, so that completed uploads are the only writers.)
C5_Original ==
    (Quiet /\ StartupHasNotWritten) =>
        \A io \in BOOLEAN :
            LET res == listSoftware(metadataFile, io)
            IN res.status = 200 =>
                  /\ Len(res.body) = Cardinality({r \in Reqs : Succeeded(r)})
                  /\ NewestFirst(res.body)

\* C5 amended: a list() that succeeds returns the records newest first, each
\* the record of an upload that has written the store, at most one per such
\* upload; it returns exactly one per such upload (exactly N after N
\* successful uploads with none in flight) when no two read-then-write cycles
\* on the store overlapped.  When cycles overlapped it can return fewer.
C5_ListAfterUploads ==
    \A io \in BOOLEAN :
        LET res == listSoftware(metadataFile, io)
            written == {r \in Reqs : Written(r)}
        IN res.status = 200 =>
              /\ NewestFirst(res.body)
              /\ \A i \in 1..Len(res.body) :
                    \E r \in written : res.body[i].id = uuidv4(r, 2)
              /\ Len(res.body) <= Cardinality(written)
              /\ ~overlap => Len(res.body) = Cardinality(written)
              /\ (~overlap /\ Quiet) =>
                    Len(res.body) = Cardinality({r \in Reqs : Succeeded(r)})

\* C5 witness: two uploads succeeded one after the other at different times
\* and the list returned both.
C5_Witness ==
    /\ Quiet /\ ~overlap
    /\ Cardinality({r \in Reqs : Succeeded(r)}) = 2
    /\ listResp.status = 200
    /\ Len(listResp.body) = 2
    /\ Earlier(listResp.body[2].uploadedAt, listResp.body[1].uploadedAt)

\* The record is listed with the same id, name, version, description and size.
ListedVerbatim(software, body) ==
    \E i \in 1..Len(body) :
        /\ body[i].id = software.id
        /\ body[i].name = software.name
        /\ body[i].version = software.version
        /\ body[i].description = software.description
        /\ body[i].size = software.size

\* C6 as stated: the record returned by a successful upload appears verbatim
\* in the result of the next list().  (Stated for the states in which the
\* start-up block has not written.)
C6_Original ==
    StartupHasNotWritten =>
        \A r \in Reqs, io \in BOOLEAN :
            LET res == listSoftware(metadataFile, io)
            IN (Succeeded(r) /\ res.status = 200) =>
                  ListedVerbatim(resp[r].software, res.body)

\* C6 amended: the record returned by a successful upload appears verbatim in
\* the result of a following list() that succeeds, provided no two
\* read-then-write cycles on the store overlapped; and whenever a record with
\* its id is listed, that record is the one returned.
C6_RoundTrip ==
    \A r \in Reqs, io \in BOOLEAN :
        LET res == listSoftware(metadataFile, io)
        IN (Succeeded(r) /\ res.status = 200) =>
              /\ ~overlap => ListedVerbatim(resp[r].software, res.body)
              /\ \A i \in 1..Len(res.body) :
                    res.body[i].id = resp[r].software.id =>
                        res.body[i] = resp[r].software

\* C6 witness: an upload with name "App" and version "1.0" succeeded and the
\* list that followed holds its record.
C6_Witness ==
    \E r \in Reqs :
        /\ Succeeded(r)
        /\ resp[r].software.name = "App" /\ resp[r].software.version = "1.0"
        /\ resp[r].software.description = ""
        /\ listResp.status = 200
        /\ ListedVerbatim(resp[r].software, listResp.body)

\* The name holds a path separator or the parent-directory token.
Unsafe(name) ==
    \/ \E i \in 1..Len(name) : name[i] = 47
    \/ \E i \in 1..(Len(name) - 1) : name[i] = 46 /\ name[i + 1] = 46

\* C7: a download whose serverFilename holds a path separator or '..' fails
\* with 400, and the request touches the filesystem at no point.
C7_UnsafeNameRejected ==
    [][\A r \in Reqs :
          Fresh(r) =>
            \A n \in DownloadNames :
              (Unsafe(n) /\ DownloadStart(r, n)) =>
                  /\ pc'[r] = "done"
                  /\ resp'[r].status = 400
                  /\ ~hist'[r].fs]_vars

\* C7 witness: a download was answered 400 without touching the filesystem.
C7_Witness ==
    \E r \in Reqs :
        kind[r] = "download" /\ resp[r].status = 400 /\ ~hist[r].fs

\* The download name the claim expects for a stored file.
ExpectedName(serverFilename) ==
    LET hits == {rec \in Elems(metadataFile.recs) : rec.serverFilename = serverFilename}
    IN IF hits = {} THEN serverFilename
       ELSE (CHOOSE rec \in hits : TRUE).originalFilename

\* C8 as stated: a download of a valid serverFilename is answered 404 when
\* no such file is in the upload directory, and otherwise serves the file,
\* under the originalFilename of the matching record or under the raw
\* serverFilename when no record matches.
C8_Claim ==
    [][\A r \in Reqs :
          (kind[r] = "download" /\ pc[r] # "done" /\ pc'[r] = "done") =>
              IF FileNamed(loc[r].serverFilename) = {}
              THEN resp'[r].status = 404
              ELSE /\ resp'[r].status = 200
                   /\ resp'[r].filename = ExpectedName(loc[r].serverFilename)]_vars

\* C9: no two records of the store share a serverFilename, and every
\* record's serverFilename names a file in the upload directory.
C9_RecordsHaveFiles ==
    LET recs == metadataFile.recs
    IN /\ \A i, j \in 1..Len(recs) :
              i # j => recs[i].serverFilename # recs[j].serverFilename
       /\ \A i \in 1..Len(recs) : FileNamed(recs[i].serverFilename) # {}

\* C9 witness: the store holds two records.
C9_Witness == metadataFile.state = "ok" /\ Len(metadataFile.recs) = 2

\* Every record built so far: stored, returned, or about to be written.
CreatedRecords ==
    Elems(metadataFile.recs)
    \cup {resp[q].software : q \in {q \in Reqs : Succeeded(q)}}
    \cup {loc[q].newSoftware : q \in {q \in Reqs : pc[q] \in {"writeMetadata", "respond"}}}

\* C10: the record returned with a 201 has a serverFilename that no other
\* record created so far has, and a file of that name and of the record's
\* size is in the upload directory.
C10_FreshNameAndFile ==
    \A r \in Reqs :
        Succeeded(r) =>
            LET software == resp[r].software
            IN /\ \A rec \in CreatedRecords :
                      rec.serverFilename = software.serverFilename => rec = software
               /\ \E f \in uploads :
                      f.name = software.serverFilename /\ f.size = software.size

\* C10 witness: two uploads were answered 201.
C10_Witness ==
    \E r, q \in Reqs :
        /\ r # q /\ Succeeded(r) /\ Succeeded(q)
        /\ resp[r].software.serverFilename # resp[q].software.serverFilename

\* The ids of the records of an array.
Ids(recs) == {recs[i].id : i \in 1..Len(recs)}

\* C11: two uploads can interleave their read-all / write-all cycles: while
\* both are between their read and their write neither array holds the
\* other's record, and when the second of them writes, the record the first
\* one stored is replaced away (a lost update) although the first one answers
\* 201 all the same; the file of the lost record stays in the upload directory.
C11_LostUpdate ==
    [][\A r \in Reqs :
          pc[r] = "writeMetadata" =>
            \A q \in Reqs \ {r} :
              /\ pc[q] = "writeMetadata" =>
                    uuidv4(q, 2) \notin Ids(SubSeq(loc[r].metadata, 1,
                                                   Len(loc[r].metadata) - 1))
              /\ ( /\ Written(q)
                   /\ OwnRecords(q, metadataFile) # {}
                   /\ uuidv4(q, 2) \notin Ids(loc[r].metadata)
                   /\ UploadWriteMetadata(r, "ok") ) =>
                      /\ OwnRecords(q, metadataFile') = {}
                      /\ OwnRecords(r, metadataFile') # {}
                      /\ OwnFiles(q, uploads') # {}
                      /\ Written(q)'
                      /\ pc'[r] = "respond"]_vars

\* C11 witness: both uploads were answered 201, the store holds the record
\* of one of them only, and the file of the other is still there.
C11_Witness ==
    \E r, q \in Reqs :
        /\ r # q /\ Succeeded(r) /\ Succeeded(q)
        /\ StartupHasNotWritten
        /\ metadataFile.state = "ok"
        /\ OwnRecords(r, metadataFile) # {}
        /\ OwnRecords(q, metadataFile) = {}
        /\ OwnFiles(q, uploads) # {}

\* The position of the first element of recs with the given id (0: none).
Pos(recs, id) ==
    LET hits == {i \in 1..Len(recs) : recs[i].id = id}
    IN IF hits = {} THEN 0 ELSE CHOOSE i \in hits : \A j \in hits : i <= j

\* The records present in both arrays are in the same relative order.
SameRelativeOrder(old, new) ==
    \A i, j \in 1..Len(old) :
        (i < j /\ Pos(new, old[i].id) # 0 /\ Pos(new, old[j].id) # 0) =>
            Pos(new, old[i].id) < Pos(new, old[j].id)

\* The upload of request r has its file stored and is on its way to, or
\* past, its accesses to the metadata store.
PastFileWrite(r) ==
    /\ kind[r] = "upload"
    /\ pc[r] \in {"readMetadata", "writeMetadata", "respond"} \/ resp[r].status = 201

\* Request r's metadata write completes.
OwnWriteCompletes(r) ==
    pc[r] = "writeMetadata" /\ UploadWriteMetadata(r, "ok")

ReadFails(file, io) == file.state = "corrupt" \/ (file.state = "ok" /\ ~io)

\* An upload answered 500 by the catch block around its store accesses.
MetadataError(r) ==
    /\ kind[r] = "upload"
    /\ resp[r].status = 500
    /\ resp[r].message = "Error saving software metadata."

\* C13: when reading or writing the metadata store fails after the uploaded
\* file was saved, the handler goes on to delete that file and then answers
\* 500: a delete that succeeds removes the file, a delete that fails changes
\* nothing and the answer is 500 all the same; the store holds no record of
\* that upload.
C13_MetadataFailureCleansUp ==
    [][\A r \in Reqs :
          /\ (kind[r] = "upload" /\ pc[r] = "readMetadata") =>
                \A io \in BOOLEAN, dt \in {0, 1} :
                    (ReadFails(metadataFile, io) /\ UploadReadMetadata(r, io, dt)) =>
                        /\ pc'[r] = "unlinkFailed"
                        /\ resp'[r] = NoResponse
                        /\ OwnFiles(r, uploads') # {}
                        /\ metadataFile' = metadataFile
          /\ pc[r] = "writeMetadata" =>
                \A outcome \in WriteOutcomes \ {"ok"} :
                    UploadWriteMetadata(r, outcome) =>
                        /\ pc'[r] = "unlinkFailed"
                        /\ resp'[r] = NoResponse
                        /\ OwnFiles(r, uploads') # {}
                        /\ OwnRecords(r, metadataFile') = {}
          /\ pc[r] = "unlinkFailed" =>
                \A ok \in BOOLEAN :
                    UploadUnlinkFailed(r, ok) =>
                        /\ MetadataError(r)'
                        /\ pc'[r] = "done"
                        /\ ok => OwnFiles(r, uploads') = {}
                        /\ ~ok => uploads' = uploads
                        /\ metadataFile' = metadataFile
                        /\ OwnRecords(r, metadataFile') = {}]_vars

\* C13 witness: an upload whose store access failed was answered 500, its
\* file is gone and the store has no record of it.
C13_Witness ==
    \E r \in Reqs :
        /\ MetadataError(r)
        /\ hist[r].fs
        /\ OwnFiles(r, uploads) = {}
        /\ OwnRecords(r, metadataFile) = {}

\* C14 as stated: a read or parse failure of the metadata store other than
\* the file being absent is answered with a server error (500) by the upload
\* handler (after its cleanup), by the list handler and by the download
\* handler.
C14_Claim ==
    [][\A r \in Reqs, io \in BOOLEAN :
          ReadFails(metadataFile, io) =>
              /\ listSoftware(metadataFile, io).status = 500
              /\ (kind[r] = "upload" /\ pc[r] = "readMetadata") =>
                    \A dt \in {0, 1} :
                        UploadReadMetadata(r, io, dt) => pc'[r] = "unlinkFailed"
              /\ pc[r] = "unlinkFailed" =>
                    \A ok \in BOOLEAN :
                        UploadUnlinkFailed(r, ok) => resp'[r].status = 500
              /\ (kind[r] = "download" /\ pc[r] = "readMetadata") =>
                    (DownloadReadMetadata(r, io) =>
                        pc'[r] = "done" /\ resp'[r].status = 500)]_vars

\* C15: while the metadata file is absent readMetadata returns the empty
\* array whatever else goes wrong: a list is answered 200 with an empty
\* array, and a valid upload that reads then goes on to write an array
\* holding just its record; when that write completes the store holds
\* exactly that one record and the upload is answered 201 with it.
C15_AbsentReadsAsEmpty ==
    [][\A r \in Reqs :
          /\ metadataFile.state = "absent" =>
                \A io \in BOOLEAN :
                    /\ readMetadata(metadataFile, io) = [ok |-> TRUE, data |-> << >>]
                    /\ listSoftware(metadataFile, io) = [status |-> 200, body |-> << >>]
                    /\ (kind[r] = "upload" /\ pc[r] = "readMetadata") =>
                          \A dt \in {0, 1} :
                              UploadReadMetadata(r, io, dt) =>
                                  /\ pc'[r] = "writeMetadata"
                                  /\ loc'[r].metadata = <<loc'[r].newSoftware>>
                                  /\ loc'[r].newSoftware.id = uuidv4(r, 2)
          /\ (pc[r] = "writeMetadata" /\ Len(loc[r].metadata) = 1) =>
                (UploadWriteMetadata(r, "ok") =>
                    /\ metadataFile' = Stored(<<loc[r].newSoftware>>)
                    /\ pc'[r] = "respond")
          /\ pc[r] = "respond" =>
                (UploadRespond(r) =>
                    /\ resp'[r].status = 201
                    /\ resp'[r].software = loc[r].newSoftware)]_vars

\* C15 witness: the start-up block found no file and has not yet written
\* one, so that every read so far was of the absent file: a list was
\* answered 200 with nothing, and an upload succeeded and the store holds
\* exactly its record.
C15_Witness ==
    \E r \in Reqs :
        /\ initPc = "write"
        /\ listResp = [status |-> 200, body |-> << >>]
        /\ Succeeded(r)
        /\ metadataFile = Stored(<<resp[r].software>>)

\* The record is one that a fully checked upload of request r builds.
CheckedRecord(rec, r) ==
    /\ rec.id = uuidv4(r, 2)
    /\ Written(r)
    /\ hist[r].multer /\ hist[r].fs
    /\ Truthy(MY_SECRET_UPLOAD_TOKEN)
    /\ ~NotDotExe(rec.originalFilename)
    /\ Truthy(rec.name)
    /\ rec.size <= FILE_SIZE_LIMIT
    /\ \E f \in OwnFiles(r, uploads) : f.name = rec.serverFilename /\ f.size = rec.size

\* C16: every record of the metadata store was written by an upload that
\* passed every check (its token was the configured secret, its file had
\* the extension '.exe' and was stored whole, its softwareName was not
\* empty) and that is answered 201; multer runs only for a request carrying
\* the configured secret, and an upload answered 400, 401 or 500 has no
\* record in the store.
C16_RecordsFromCheckedUploads ==
    [][/\ \A r \in Reqs, t \in HeaderValues :
             (Fresh(r) /\ UploadStart(r, t) /\ hist'[r].multer) =>
                 t = MY_SECRET_UPLOAD_TOKEN /\ Truthy(MY_SECRET_UPLOAD_TOKEN)
       /\ \A i \in 1..Len(metadataFile'.recs) :
             \E r \in Reqs : CheckedRecord(metadataFile.recs[i], r)'
       /\ \A r \in Reqs :
             (kind'[r] = "upload" /\ resp'[r].status \in {400, 401, 500}) =>
                 OwnRecords(r, metadataFile') = {}]_vars

\* C16 witness: the store holds the record of a successful upload while
\* another upload, stopped by a failing store access, was answered 500.
C16_Witness ==
    \E r, q \in Reqs :
        /\ r # q
        /\ Succeeded(r)
        /\ metadataFile = Stored(<<resp[r].software>>)
        /\ MetadataError(q)

\* The files that records of the store refer to.
ReferencedFiles(file, dir) ==
    {f \in dir : \E rec \in Elems(file.recs) : rec.serverFilename = f.name}

\* C17: the cleanup of a failing upload (after a missing softwareName, after
\* a failed store access) removes at most the file that the same request
\* stored: every file that a record of the store refers to is still there
\* afterwards, and the metadata store is unchanged.
C17_CleanupFrame ==
    [][\A r \in Reqs :
          pc[r] \in {"unlinkOrphan", "unlinkFailed"} =>
            \A ok \in BOOLEAN :
              (UploadUnlinkOrphan(r, ok) \/ UploadUnlinkFailed(r, ok)) =>
                  /\ uploads' \subseteq uploads
                  /\ (uploads \ uploads') \subseteq OwnFiles(r, uploads)
                  /\ ok => uploads \ uploads' = OwnFiles(r, uploads)
                  /\ ReferencedFiles(metadataFile, uploads) \subseteq uploads'
                  /\ metadataFile' = metadataFile]_vars

\* C17 witness: a failing upload has removed its file while the store holds
\* the record of another upload, whose file is still there.
C17_Witness ==
    \E r, q \in Reqs :
        /\ r # q
        /\ NameRequired(q) \/ MetadataError(q)
        /\ hist[q].fs /\ OwnFiles(q, uploads) = {}
        /\ OwnRecords(r, metadataFile) # {}
        /\ ReferencedFiles(metadataFile, uploads) = OwnFiles(r, uploads)
        /\ OwnFiles(r, uploads) # {}

\* C18 as stated: the write of the empty array by the start-up block never
\* discards records: every record in the store before it is in the store
\* after it.
C18_Claim ==
    [][(initPc = "write" /\ InitWrite("ok")) =>
          Elems(metadataFile.recs) \subseteq Elems(metadataFile'.recs)]_vars

\* The statuses the upload route can answer with.
UploadStatuses == {201, 400, 401, 500}

\* C19: every upload request is answered, once: its response, once sent,
\* is never changed; it is sent when the handler ends and carries one of the
\* statuses 201, 400, 401, 500, also when the cleanup delete fails; 201 is
\* sent only by the step that follows the completed write of the store,
\* which stored the request's record; and every upload that has arrived is
\* answered in the end.
C19_ExactlyOneResponse ==
    /\ [][\A r \in Reqs :
             /\ resp[r] # NoResponse => resp'[r] = resp[r]
             /\ kind'[r] = "upload" =>
                   /\ (pc'[r] = "done") = (resp'[r] # NoResponse)
                   /\ resp'[r] # NoResponse => resp'[r].status \in UploadStatuses
                   /\ (resp'[r].status = 201 /\ resp[r].status # 201) =>
                         pc[r] = "respond"
                   /\ (pc'[r] = "respond" /\ pc[r] # "respond") =>
                         /\ pc[r] = "writeMetadata"
                         /\ metadataFile' = Stored(loc[r].metadata)
                         /\ OwnRecords(r, metadataFile') # {}
             /\ pc[r] \in {"unlinkOrphan", "unlinkFailed"} =>
                   ( (UploadUnlinkOrphan(r, FALSE) \/ UploadUnlinkFailed(r, FALSE)) =>
                         resp'[r].status \in {400, 500} )]_vars
    /\ \A r \in Reqs :
          (kind[r] = "upload") ~> (resp[r].status \in UploadStatuses)

\* C19 witness: an upload whose store access failed and whose cleanup delete
\* failed too (its file is still there) was answered 500.
C19_Witness ==
    \E r \in Reqs : MetadataError(r) /\ OwnFiles(r, uploads) # {}

====
